---- MODULE Spec2Model ----
(***************************************************************************)
(* Model of the notebook "BD magnitudes.ipynb": the spectrum and filter    *)
(* loaders, the synthetic-magnitude integrator get_abs_mag, and the        *)
(* notebook session (cells, global names, driver loop, plotting loops).    *)
(*                                                                         *)
(* Numbers.  The code computes in IEEE doubles; the model computes the     *)
(* same expressions in exact rational arithmetic (a rational is a pair     *)
(* <<n, d>> in lowest terms with d > 0), and keeps the three non-finite    *)
(* doubles a division or a logarithm can produce ("nan", "inf", "-inf").   *)
(* Rounding is not modelled.  The magnitude -2.5*log10(r) is carried as    *)
(* the ratio r it is the logarithm of: log10 is injective on r > 0, so     *)
(* two magnitudes are equal exactly when their ratios are.                 *)
(***************************************************************************)
EXTENDS Integers, Sequences, FiniteSets, TLC

----------------------------------------------------------------------------
(* Exact rational arithmetic standing for the float operations.            *)

RECURSIVE GCD(_, _)
GCD(a, b) ==
    IF b = 0 THEN a ELSE GCD(b, a % b)

Abs(a) ==
    IF a < 0 THEN -a ELSE a

Norm(n, d) ==
    LET g == GCD(Abs(n), Abs(d))
        s == IF d < 0 THEN -1 ELSE 1
    IN  <<(s * n) \div g, (s * d) \div g>>

Q(n) ==
    <<n, 1>>

RAdd(a, b) ==
    LET g == GCD(a[2], b[2])
        l == (a[2] \div g) * b[2]
    IN  Norm(a[1] * (l \div a[2]) + b[1] * (l \div b[2]), l)

RNeg(a) ==
    <<-a[1], a[2]>>

RSub(a, b) ==
    RAdd(a, RNeg(b))

RMul(a, b) ==
    LET g1 == GCD(Abs(a[1]), b[2])
        g2 == GCD(Abs(b[1]), a[2])
        h1 == IF g1 = 0 THEN 1 ELSE g1
        h2 == IF g2 = 0 THEN 1 ELSE g2
    IN  Norm((a[1] \div h1) * (b[1] \div h2), (a[2] \div h2) * (b[2] \div h1))

\* 1/a for a # 0
RInv(a) ==
    IF a[1] < 0 THEN <<-a[2], -a[1]>> ELSE <<a[2], a[1]>>

RDiv(a, b) ==
    RMul(a, RInv(b))

RLess(a, b) ==
    a[1] * b[2] < b[1] * a[2]

RLeq(a, b) ==
    a[1] * b[2] <= b[1] * a[2]

RSign(a) ==
    IF a[1] > 0 THEN 1 ELSE IF a[1] < 0 THEN -1 ELSE 0

----------------------------------------------------------------------------
(* Units.  Wavelengths are integers in the unit of the file (micron for a  *)
(* spectrum, angstrom for a filter).  The frequency unit is chosen so that *)
(* the speed of light is SpeedOfLight angstrom per unit time; flux density *)
(* is carried in jansky (the code's erg/s/cm^2/Hz differs from it by the   *)
(* factor that np.log10 removes again when it reduces fnu1/fnu2 to a       *)
(* dimensionless number).                                                  *)

SpeedOfLight == 600000

AngstromPerMicron == 10000

MilliJanskyPerJansky == 1000

ABZeroPointJansky == 3631

\* Quantity.to(u.Hz, u.spectral()) of a wavelength in angstrom: nu = c / lambda
SpectralToHz(wvln) ==
    Norm(SpeedOfLight, wvln)

\* Quantity.to(erg/s/cm^2/AA, u.spectral_density(wvln)): f_lambda = f_nu * c / lambda^2
SpectralDensityToFlam(fnu, wvln) ==
    RMul(RMul(fnu, Norm(SpeedOfLight, wvln)), <<1, wvln>>)

\* an array with its elements evaluated (once) when it is built
Array(f) ==
    SubSeq(f, 1, Len(f))

Column(rows, k) ==
    Array([i \in 1..Len(rows) |-> rows[i][k]])

\* load_model: rows are <<LAMBDA(mic), FDET(milliJ)>>, in file order
load_model(model_spec_file, lambda_) ==
    LET model_spec == model_spec_file
        model_wvln == Array([i \in 1..Len(model_spec) |-> model_spec[i][1] * AngstromPerMicron])
        model_nu   == Array([i \in 1..Len(model_spec) |-> SpectralToHz(model_wvln[i])])
        model_fnu  == Array([i \in 1..Len(model_spec) |->
                                Norm(model_spec[i][2], MilliJanskyPerJansky)])
    IN  IF lambda_
        THEN <<Array([i \in 1..Len(model_spec) |-> Q(model_wvln[i])]),
               Array([i \in 1..Len(model_spec) |->
                         SpectralDensityToFlam(model_fnu[i], model_wvln[i])])>>
        ELSE <<model_nu, model_fnu>>

\* load_filter: rows are <<wavelength (angstrom), response>>, in file order;
\* the frequency axis is derived row by row and is not re-sorted
load_filter(filter_file, lambda_) ==
    LET filter_wvln == Column(filter_file, 1)
        filter_nu   == Array([i \in 1..Len(filter_file) |-> SpectralToHz(filter_wvln[i])])
        filter_resp == Array([i \in 1..Len(filter_file) |-> Q(filter_file[i][2])])
    IN  IF lambda_
        THEN <<Array([i \in 1..Len(filter_file) |-> Q(filter_wvln[i])]), filter_resp>>
        ELSE <<filter_nu, filter_resp>>

----------------------------------------------------------------------------
(* np.interp(x, xp, fp), as numpy computes it (compiled_base.c, arr_interp *)
(* and binary_search_with_guess).  numpy does not check that xp increases. *)

\* for (i = 1; i < len && key >= arr[i]; ++i); return i - 1;   (p is i + 1)
RECURSIVE LinearSearch(_, _, _)
LinearSearch(key, arr, p) ==
    IF p <= Len(arr) /\ RLeq(arr[p], key) THEN LinearSearch(key, arr, p + 1) ELSE p - 2

\* while (imin < imax) { imid = imin + ((imax - imin) >> 1); ... } return imin - 1;
\* (imin, imax and the result are numpy's 0-based indices)
RECURSIVE Bisect(_, _, _, _)
Bisect(key, arr, imin, imax) ==
    IF imin < imax
    THEN LET imid == imin + ((imax - imin) \div 2)
         IN  IF RLeq(arr[imid + 1], key)
             THEN Bisect(key, arr, imid + 1, imax)
             ELSE Bisect(key, arr, imin, imid)
    ELSE imin - 1

\* binary_search_with_guess: numpy's 0-based index j with arr[j] <= key < arr[j+1]
\* when arr increases; len when key > arr[len-1], else -1 when key < arr[0].
\* Arrays of up to four points are searched linearly, longer ones by bisection
\* (the guess only shortens the bisection).
binary_search(key, arr) ==
    IF RLess(arr[Len(arr)], key) THEN Len(arr)
    ELSE IF RLess(key, arr[1]) THEN -1
    ELSE IF Len(arr) <= 4 THEN LinearSearch(key, arr, 2)
    ELSE Bisect(key, arr, 0, Len(arr))

\* arr_interp, one sample: left = fp[0] and right = fp[-1] are numpy's defaults
interp1(x, xp, fp) ==
    LET j == binary_search(x, xp)
    IN  IF j = -1 THEN fp[1]
        ELSE IF j = Len(xp) THEN fp[Len(xp)]
        ELSE IF j = Len(xp) - 1 THEN fp[j + 1]
        ELSE IF xp[j + 1] = x THEN fp[j + 1]
        ELSE LET slope == RDiv(RSub(fp[j + 2], fp[j + 1]), RSub(xp[j + 2], xp[j + 1]))
             IN  RAdd(RMul(slope, RSub(x, xp[j + 1])), fp[j + 1])

np_interp(x, xp, fp) ==
    Array([i \in 1..Len(x) |-> interp1(x[i], xp, fp)])

----------------------------------------------------------------------------
(* np.argsort and scipy.integrate.simps (the 'avg' rule for an even number *)
(* of samples), on distinct abscissae.                                     *)

\* np.argsort(a): the index of the k-th smallest element, for each k
np_argsort(a) ==
    Array([k \in 1..Len(a) |->
              CHOOSE i \in 1..Len(a) :
                  Cardinality({j \in 1..Len(a) : RLess(a[j], a[i])}) = k - 1])

\* a[idx]: fancy indexing
Take(a, idx) ==
    Array([k \in 1..Len(idx) |-> a[idx[k]]])

\* one panel of Simpson's rule on unequal spacings, over samples i, i+1, i+2 (1-based)
SimpsPanel(y, x, i) ==
    LET h0      == RSub(x[i + 1], x[i])
        h1      == RSub(x[i + 2], x[i + 1])
        hsum    == RAdd(h0, h1)
        hprod   == RMul(h0, h1)
        h0divh1 == RDiv(h0, h1)
    IN  RMul(RDiv(hsum, Q(6)),
             RAdd(RAdd(RMul(y[i], RSub(Q(2), RInv(h0divh1))),
                       RMul(y[i + 1], RDiv(RMul(hsum, hsum), hprod))),
                  RMul(y[i + 2], RSub(Q(2), h0divh1))))

\* _basic_simps(y, start, stop, x): panels at 0-based start, start+2, ... < stop
RECURSIVE basic_simps(_, _, _, _)
basic_simps(y, start, stop, x) ==
    IF start >= stop THEN Q(0)
    ELSE RAdd(SimpsPanel(y, x, start + 1), basic_simps(y, start + 2, stop, x))

Trapezoid(y, x, i) ==
    RMul(RMul(<<1, 2>>, RSub(x[i + 1], x[i])), RAdd(y[i + 1], y[i]))

simps(y, x) ==
    LET N == Len(y)
    IN  IF N % 2 = 0
        THEN LET val    == RAdd(Trapezoid(y, x, N - 1), Trapezoid(y, x, 1))
                 result == RAdd(basic_simps(y, 0, N - 3, x), basic_simps(y, 1, N - 2, x))
             IN  RAdd(RDiv(result, Q(2)), RDiv(val, Q(2)))
        ELSE basic_simps(y, 0, N - 2, x)

----------------------------------------------------------------------------
(* get_abs_mag.  A float result is a record [k, v]: k = "fin" with the     *)
(* rational v, or k in {"nan", "inf", "-inf"} with v = <<0, 1>>.           *)

Fin(v) ==
    [k |-> "fin", v |-> v]

NonFinite(k) ==
    [k |-> k, v |-> <<0, 1>>]

\* fnu1 / fnu2 on doubles: a zero divisor gives nan or an infinity, no error
QuantityDiv(x, y) ==
    IF y[1] # 0 THEN Fin(RDiv(x, y))
    ELSE IF x[1] = 0 THEN NonFinite("nan")
    ELSE IF x[1] > 0 THEN NonFinite("inf") ELSE NonFinite("-inf")

\* -2.5 * np.log10(r) as it would be if the logarithm of zero were not a number
MagOfRatioZeroNaN(r) ==
    IF r.k = "nan" THEN NonFinite("nan")
    ELSE IF r.k = "inf" THEN NonFinite("-inf")
    ELSE IF r.k = "-inf" THEN NonFinite("nan")
    ELSE IF RSign(r.v) > 0 THEN Fin(r.v)
    ELSE NonFinite("nan")

\* -2.5 * np.log10(r): a finite magnitude is carried as [k |-> "fin", v |-> r], r > 0
MagOfRatio(r) ==
    IF r.k = "nan" THEN NonFinite("nan")
    ELSE IF r.k = "inf" THEN NonFinite("-inf")
    ELSE IF r.k = "-inf" THEN NonFinite("nan")
    ELSE IF RSign(r.v) > 0 THEN Fin(r.v)
    ELSE IF RSign(r.v) = 0 THEN NonFinite("inf")
    ELSE NonFinite("nan")

\* a name looked up in the session's globals first, as it would be if the body
\* declared its names global
GlobalName(frame, globals, name) ==
    IF name \in DOMAIN globals THEN globals[name] ELSE frame[name]

\* The names the body of get_abs_mag assigns (lines 76-87) are local to the call:
\* a read of one of them inside the body sees the call's own value, whatever the
\* session's global of the same name holds.
LocalName(frame, globals, name) ==
    frame[name]

\* lines 84-85 as they would read without the [model_nu.argsort()] on the
\* integrand: the grid sorted, the product left in file order
WeightedFluxFileOrder(model_fnu, filter_resp_model, model_nu) ==
    simps(Array([i \in 1..Len(model_nu) |-> RMul(model_fnu[i], filter_resp_model[i])]),
          Take(model_nu, np_argsort(model_nu)))

\* lines 87-88 as they would read with the response left out of the integrand
NormalizationOfBand(filter_resp_model, model_nu) ==
    RMul(simps(Array([i \in 1..Len(model_nu) |-> Q(1)]),
               Take(model_nu, np_argsort(model_nu))),
         Q(ABZeroPointJansky))

\* lines 84-85: the weighted flux integral; integrand and grid are both put in
\* ascending-frequency order with the same permutation
WeightedFlux(model_fnu, filter_resp_model, model_nu) ==
    simps(Take(Array([i \in 1..Len(model_nu) |-> RMul(model_fnu[i], filter_resp_model[i])]),
               np_argsort(model_nu)),
          Take(model_nu, np_argsort(model_nu)))

\* lines 87-88: the normalization integral, times the AB zero point
Normalization(filter_resp_model, model_nu) ==
    RMul(simps(Take(filter_resp_model, np_argsort(model_nu)),
               Take(model_nu, np_argsort(model_nu))),
         Q(ABZeroPointJansky))

\* the locals of one call of get_abs_mag, and the value it returns
get_abs_mag_frame(model_spec_file, filter_resp_file, globals) ==
    LET m   == load_model(model_spec_file, FALSE)
        f   == load_filter(filter_resp_file, FALSE)
        fr0 == [model_nu |-> m[1], model_fnu |-> m[2],
                filter_nu |-> f[1], filter_resp |-> f[2]]
        model_nu    == LocalName(fr0, globals, "model_nu")
        model_fnu   == LocalName(fr0, globals, "model_fnu")
        filter_nu   == LocalName(fr0, globals, "filter_nu")
        filter_resp == LocalName(fr0, globals, "filter_resp")
        filter_resp_model == np_interp(model_nu, filter_nu, filter_resp)
        fnu1 == WeightedFlux(model_fnu, filter_resp_model, model_nu)
        fnu2 == Normalization(filter_resp_model, model_nu)
    IN  [model_nu |-> model_nu, model_fnu |-> model_fnu,
         filter_nu |-> filter_nu, filter_resp |-> filter_resp,
         filter_resp_model |-> filter_resp_model,
         fnu1 |-> fnu1, fnu2 |-> fnu2,
         ratio |-> QuantityDiv(fnu1, fnu2),
         mag |-> MagOfRatio(QuantityDiv(fnu1, fnu2))]

get_abs_mag(model_spec_file, filter_resp_file, globals) ==
    get_abs_mag_frame(model_spec_file, filter_resp_file, globals).mag

----------------------------------------------------------------------------
(* File names and the filter-identifier pattern.  A name is a sequence of  *)
(* one-character strings.                                                  *)

Digits == {"0", "1", "2", "3", "4", "5", "6", "7", "8", "9"}

Lower == {"a", "b", "c", "d", "e", "f", "g", "h", "i", "j", "k", "l", "m",
          "n", "o", "p", "q", "r", "s", "t", "u", "v", "w", "x", "y", "z"}

Upper == {"A", "B", "C", "D", "E", "F", "G", "H", "I", "J", "K", "L", "M",
          "N", "O", "P", "Q", "R", "S", "T", "U", "V", "W", "X", "Y", "Z"}

\* the character class [0-9a-zA-Z]
Alnum == Digits \cup Lower \cup Upper

HasAt(s, p, lit) ==
    /\ p >= 1
    /\ p + Len(lit) - 1 <= Len(s)
    /\ SubSeq(s, p, p + Len(lit) - 1) = lit

\* 'hsc_([0-9a-zA-Z]+).dat' matched at position p with a group of g characters;
\* the unescaped dot matches any one character
MatchAt(s, p, g) ==
    /\ HasAt(s, p, <<"h", "s", "c", "_">>)
    /\ \A k \in (p + 4)..(p + 3 + g) : k <= Len(s) /\ s[k] \in Alnum
    /\ p + 4 + g <= Len(s)
    /\ HasAt(s, p + 5 + g, <<"d", "a", "t">>)

\* pattr.search(s): the leftmost match, the group as long as it can be (greedy);
\* found = FALSE stands for None
pattr_search(s) ==
    LET starts == {p \in 1..Len(s) : \E g \in 1..Len(s) : MatchAt(s, p, g)}
    IN  IF starts = {} THEN [found |-> FALSE, group |-> <<>>]
        ELSE LET p == CHOOSE q \in starts : \A r \in starts : q <= r
                 g == CHOOSE h \in 1..Len(s) :
                          /\ MatchAt(s, p, h)
                          /\ \A h2 \in 1..Len(s) : MatchAt(s, p, h2) => h2 <= h
             IN  [found |-> TRUE, group |-> SubSeq(s, p + 4, p + 3 + g)]

\* str.startswith('nb')
\* filter_name.startswith('NB'), the test as it would be in upper case
startswith_NB(name) ==
    HasAt(name, 1, <<"N", "B">>)

startswith_nb(name) ==
    HasAt(name, 1, <<"n", "b">>)

\* '../data/hsc_responses_v1/'
ResponsesDir ==
    <<".", ".", "/", "d", "a", "t", "a", "/", "h", "s", "c", "_", "r", "e", "s",
      "p", "o", "n", "s", "e", "s", "_", "v", "1", "/">>

\* fnmatch of a name against '*.dat': it ends in '.dat' and is not a dot file
MatchesDat(m) ==
    /\ Len(m) >= 4
    /\ HasAt(m, Len(m) - 3, <<".", "d", "a", "t">>)
    /\ m[1] # "."

\* glob.glob('../data/hsc_responses_v1/*.dat') over the directory as the
\* operating system lists it: the paths of the matching names, in that order
RECURSIVE glob_dat(_)
glob_dat(listing) ==
    IF listing = <<>> THEN <<>>
    ELSE (IF MatchesDat(Head(listing)) THEN <<ResponsesDir \o Head(listing)>> ELSE <<>>)
         \o glob_dat(Tail(listing))

BaseName(path) ==
    SubSeq(path, Len(ResponsesDir) + 1, Len(path))

----------------------------------------------------------------------------
(* The files on disk.  The notebook reads them and never writes them; what *)
(* they hold is an input, drawn here from bounded sets.  Fluxes are whole  *)
(* janskys written in millijansky, so that every quantity computed stays   *)
(* an exact rational within TLC's integers.                                *)

Reverse(s) ==
    Array([i \in 1..Len(s) |-> s[Len(s) + 1 - i]])

\* a file's rows in one of three orders of the same rows: as tabulated (ascending
\* wavelength, i.e. descending frequency), reversed, or rotated by one row (not
\* monotonic)
Reorder(rows, order) ==
    IF order = "ascending-wavelength" THEN rows
    ELSE IF order = "descending-wavelength" THEN Reverse(rows)
    ELSE Tail(rows) \o <<Head(rows)>>

HscR == <<"h", "s", "c", "_", "r", ".", "d", "a", "t">>

HscI == <<"h", "s", "c", "_", "i", ".", "d", "a", "t">>

HscZ == <<"h", "s", "c", "_", "z", ".", "d", "a", "t">>

HscY == <<"h", "s", "c", "_", "y", ".", "d", "a", "t">>

HscNB == <<"h", "s", "c", "_", "n", "b", "8", ".", "d", "a", "t">>

HscT == <<"h", "s", "c", "_", "T", ".", "d", "a", "t">>

\* a .dat file whose name carries no identifier
HscDat == <<"h", "s", "c", ".", "d", "a", "t">>

\* the directories ../data/hsc_responses_v1/ the session is run against, each
\* as one listing of its names
Directories ==
    {<<>>, <<HscR, HscNB>>, <<HscR, HscT>>, <<HscR, HscDat>>,
     <<HscR, HscI, HscZ, HscY>>}

\* the orders in which the operating system may list a directory holding these
\* names
Listings(names) ==
    {l \in Directories \cup {Reverse(d) : d \in Directories} :
        {l[k] : k \in 1..Len(l)} = names}

----------------------------------------------------------------------------
(* The notebook session.                                                   *)

VARIABLES
    model_files,    \* the spectrum files on disk: path -> rows <<LAMBDA(mic), FDET(milliJ)>>
    filter_dir,     \* the files of ../data/hsc_responses_v1/: name -> rows <<wavelength, response>>
    defined,        \* the global names bound in the session
    pc,             \* "idle", or the loop the running cell is in
    todo,           \* the paths glob returned that the running loop has not reached yet
    filter_fname,   \* global filter_fname, the loop variable of the two glob loops
    filter_name,    \* global filter_name
    tbl_data,       \* global tbl_data: column key -> column
    tbl,            \* global tbl, the Table built from tbl_data
    g_filter_resp,  \* global filter_resp (bound by the filter-curve cell)
    plotted,        \* the curves drawn in the current figure of each plotting cell
    saved,          \* whether hsc_bd.png has been written
    error,          \* the exception that ended the last cell run, or "none"
    out,            \* the value the test cell displayed
    frame,          \* the locals of the last completed call of get_abs_mag
    ncalls,         \* calls of get_abs_mag in the current driver run, per <<filter path, T>>
    returned,       \* every value get_abs_mag has returned, per <<spectrum path, filter path>>
    linear          \* k when the session so far is cells 1..k run once each in order, else -1

vars ==
    <<model_files, filter_dir, defined, pc, todo, filter_fname, filter_name,
      tbl_data, tbl, g_filter_resp, plotted, saved, error, out, frame, ncalls, returned,
      linear>>

TStart == 700

TStop == 1801

TStep == 100

\* np.arange(700, 1800+1, 100)
Ts ==
    Array([k \in 1..((TStop - TStart + TStep - 1) \div TStep) |-> TStart + (k - 1) * TStep])

\* "../data/non.hubeny.burrows/c100_neq/T{0:d}_g50_d2f2.c100".format(T)
ModelFname(T) ==
    <<T, "d2f2">>

\* "../data/non.hubeny.burrows/c100_neq/T1800_g50_d2f0.c100"
TestModel ==
    <<1800, "d2f0">>

\* "../data/hsc_responses_v1/hsc_r.dat"
TestFilter ==
    ResponsesDir \o <<"h", "s", "c", "_", "r", ".", "d", "a", "t">>

\* zip('rizy', colors)
RIZY ==
    <<"r", "i", "z", "y">>

NoValue ==
    [k |-> "none", v |-> <<0, 1>>]

EmptyFrame ==
    [model_nu |-> <<>>, model_fnu |-> <<>>, filter_nu |-> <<>>, filter_resp |-> <<>>,
     filter_resp_model |-> <<>>, fnu1 |-> <<0, 1>>, fnu2 |-> <<0, 1>>,
     ratio |-> NoValue, mag |-> NoValue]

EmptyDict ==
    [key \in {} |-> <<>>]

\* d[key] = value
DictSet(d, key, value) ==
    [x \in DOMAIN d \cup {key} |-> IF x = key THEN value ELSE d[x]]

\* the session globals a function body can see when it runs
GlobalsEnv ==
    [n \in {m \in {"filter_resp"} : m \in defined} |-> g_filter_resp]

\* the exception a call get_abs_mag(model path, filter path) ends on, or "none":
\* the caller's lookup of get_abs_mag, then load_model (which needs the imports
\* and the file), then load_filter
CallStatus(model_path, filter_path) ==
    IF "get_abs_mag" \notin defined THEN "NameError"
    ELSE IF "load_model" \notin defined \/ "imports" \notin defined THEN "NameError"
    ELSE IF model_path \notin DOMAIN model_files THEN "FileNotFoundError"
    ELSE IF "load_filter" \notin defined THEN "NameError"
    ELSE IF BaseName(filter_path) \notin DOMAIN filter_dir THEN "FileNotFoundError"
    ELSE "none"

CallFrame(model_path, filter_path) ==
    get_abs_mag_frame(model_files[model_path], filter_dir[BaseName(filter_path)], GlobalsEnv)

Log(model_path, filter_path, value) ==
    LET key == <<model_path, filter_path>>
    IN  IF key \in DOMAIN returned
        THEN [returned EXCEPT ![key] = @ \cup {value}]
        ELSE DictSet(returned, key, {value})

\* a cell started now keeps the session a linear run only if it is the next cell
\* and no cell has failed
LinearAfter(cell) ==
    IF linear = cell - 1 /\ error = "none" THEN cell ELSE -1

\* the cell stops on an exception: no loop is left running
Abort(exc) ==
    /\ error' = exc
    /\ pc' = "idle"
    /\ todo' = <<>>

----------------------------------------------------------------------------
(* The cells.  A cell without a loop is one action; a cell with a loop     *)
(* over the globbed files takes one step per iteration.  A cell can be run *)
(* whenever no cell is running, in any order and any number of times.      *)

\* cell 1 (lines 11-25): the imports
RunImports ==
    /\ pc = "idle"
    /\ defined' = defined \cup {"imports"}
    /\ error' = "none"
    /\ linear' = LinearAfter(1)
    /\ UNCHANGED <<model_files, filter_dir, pc, todo, filter_fname, filter_name, tbl_data, tbl,
                   g_filter_resp, plotted, saved, out, frame, ncalls, returned>>

\* cell 2 (lines 47-90): the three def statements
RunDefs ==
    /\ pc = "idle"
    /\ defined' = defined \cup {"load_model", "load_filter", "get_abs_mag"}
    /\ error' = "none"
    /\ linear' = LinearAfter(2)
    /\ UNCHANGED <<model_files, filter_dir, pc, todo, filter_fname, filter_name, tbl_data, tbl,
                   g_filter_resp, plotted, saved, out, frame, ncalls, returned>>

\* cell 3 (lines 99-101): get_abs_mag on the two known files, the value displayed
RunTest ==
    /\ pc = "idle"
    /\ linear' = LinearAfter(3)
    /\ LET exc == CallStatus(TestModel, TestFilter)
       IN  IF exc = "none"
           THEN LET fr == CallFrame(TestModel, TestFilter)
                IN  /\ frame' = fr
                    /\ out' = frame'.mag
                    /\ returned' = Log(TestModel, TestFilter, frame'.mag)
                    /\ error' = "none"
           ELSE /\ out' = NoValue
                /\ error' = exc
                /\ UNCHANGED <<frame, returned>>
    /\ UNCHANGED <<model_files, filter_dir, defined, pc, todo, filter_fname, filter_name, tbl_data,
                   tbl, g_filter_resp, plotted, saved, ncalls>>

\* the samples of the test spectrum with 3800 AA < lam < 11000 AA (line 119)
LamInWindow ==
    {i \in 1..Len(model_files[TestModel]) :
        /\ 3800 < model_files[TestModel][i][1] * AngstromPerMicron
        /\ model_files[TestModel][i][1] * AngstromPerMicron < 11000}

\* cell 4, lines 117-125: load the spectrum on the wavelength axis, open the
\* figure, glob the filter files
PlotStart ==
    /\ pc = "idle"
    /\ linear' = LinearAfter(4)
    /\ plotted' = [plotted EXCEPT !["filters"] = {}]
    /\ IF "load_model" \notin defined \/ "imports" \notin defined
       THEN Abort("NameError") /\ UNCHANGED defined
       ELSE IF TestModel \notin DOMAIN model_files
       THEN Abort("FileNotFoundError") /\ UNCHANGED defined
       ELSE /\ defined' = defined \cup {"lam", "f_lam"}
            /\ pc' = "plot"
            /\ \E listing \in Listings(DOMAIN filter_dir) : todo' = glob_dat(listing)
            /\ error' = "none"
    /\ UNCHANGED <<model_files, filter_dir, filter_fname, filter_name, tbl_data, tbl,
                   g_filter_resp, saved, out, frame, ncalls, returned>>

\* cell 4, lines 125-130: one iteration of the filter-curve loop
PlotFilter ==
    /\ pc = "plot"
    /\ todo # <<>>
    /\ LET fname == Head(todo) IN
        /\ filter_fname' = fname
        /\ IF "pattr" \notin defined
           THEN /\ Abort("NameError")
                /\ UNCHANGED <<defined, filter_name, g_filter_resp, plotted>>
           ELSE IF ~pattr_search(fname).found
           THEN /\ Abort("AttributeError")
                /\ UNCHANGED <<defined, filter_name, g_filter_resp, plotted>>
           ELSE /\ filter_name' = pattr_search(fname).group
                /\ todo' = Tail(todo)
                /\ UNCHANGED <<pc, error>>
                /\ IF startswith_nb(filter_name')
                   THEN /\ defined' = defined \cup {"filter_fname", "filter_name"}
                        /\ UNCHANGED <<g_filter_resp, plotted>>
                   ELSE /\ defined' = defined \cup {"filter_fname", "filter_name", "filter_resp"}
                        /\ g_filter_resp' = load_filter(filter_dir[BaseName(fname)], TRUE)[2]
                        /\ plotted' = [plotted EXCEPT !["filters"] = @ \cup {filter_name'}]
    /\ UNCHANGED <<model_files, filter_dir, tbl_data, tbl, saved, out, frame,
                   ncalls, returned, linear>>

\* cell 4, lines 132-134: the spectrum, normalised by its maximum in the window
PlotFinish ==
    /\ pc = "plot"
    /\ todo = <<>>
    /\ pc' = "idle"
    /\ error' = IF LamInWindow = {} THEN "ValueError" ELSE "none"
    /\ UNCHANGED <<model_files, filter_dir, defined, todo, filter_fname, filter_name, tbl_data, tbl,
                   g_filter_resp, plotted, saved, out, frame, ncalls, returned, linear>>

\* cell 5 (line 152): pattr = re.compile(...)
RunPattr ==
    /\ pc = "idle"
    /\ linear' = LinearAfter(5)
    /\ IF "imports" \notin defined
       THEN error' = "NameError" /\ UNCHANGED defined
       ELSE error' = "none" /\ defined' = defined \cup {"pattr"}
    /\ UNCHANGED <<model_files, filter_dir, pc, todo, filter_fname, filter_name, tbl_data, tbl,
                   g_filter_resp, plotted, saved, out, frame, ncalls, returned>>

\* cell 6, lines 161-163: Ts, an empty tbl_data, glob the filter files
DriverStart ==
    /\ pc = "idle"
    /\ linear' = LinearAfter(6)
    /\ ncalls' = EmptyDict
    /\ IF "imports" \notin defined
       THEN Abort("NameError") /\ UNCHANGED <<defined, tbl_data>>
       ELSE /\ defined' = defined \cup {"Ts", "tbl_data"}
            /\ tbl_data' = EmptyDict
            /\ pc' = "files"
            /\ \E listing \in Listings(DOMAIN filter_dir) : todo' = glob_dat(listing)
            /\ error' = "none"
    /\ UNCHANGED <<model_files, filter_dir, filter_fname, filter_name, tbl, g_filter_resp,
                   plotted, saved, out, frame, returned>>

\* how many temperatures the inner loop (lines 167-170) completes for a filter
\* file: all of them, or those before the first call that raises
Completed(fname) ==
    LET failing == {i \in 1..Len(Ts) : CallStatus(ModelFname(Ts[i]), fname) # "none"}
    IN  IF failing = {} THEN Len(Ts)
        ELSE (CHOOSE i \in failing : \A k \in failing : i <= k) - 1

\* lines 169-170 over the completed temperatures: the magnitudes appended
MagColumn(fname) ==
    Array([i \in 1..Completed(fname) |-> CallFrame(ModelFname(Ts[i]), fname).mag])

\* cell 6, lines 163-170: one iteration of the loop over the filter files: the
\* identifier, an empty column, then one call of get_abs_mag per temperature,
\* each magnitude appended to the column
DriverFilter ==
    /\ pc = "files"
    /\ todo # <<>>
    /\ LET fname == Head(todo) IN
        /\ filter_fname' = fname
        /\ IF "pattr" \notin defined
           THEN /\ Abort("NameError")
                /\ UNCHANGED <<defined, filter_name, tbl_data, frame, ncalls, returned>>
           ELSE IF ~pattr_search(fname).found
           THEN /\ Abort("AttributeError")
                /\ UNCHANGED <<defined, filter_name, tbl_data, frame, ncalls, returned>>
           ELSE /\ filter_name' = pattr_search(fname).group
                /\ defined' = defined \cup {"filter_fname", "filter_name"}
                /\ tbl_data' = DictSet(tbl_data, filter_name', MagColumn(fname))
                /\ ncalls' = [key \in DOMAIN ncalls
                                  \cup {<<fname, Ts[i]>> : i \in 1..Len(tbl_data'[filter_name'])} |->
                                (IF key \in DOMAIN ncalls THEN ncalls[key] ELSE 0)
                                + (IF key[1] = fname THEN 1 ELSE 0)]
                /\ returned' = [key \in DOMAIN returned
                                    \cup {<<ModelFname(Ts[i]), fname>> :
                                             i \in 1..Len(tbl_data'[filter_name'])} |->
                                  (IF key \in DOMAIN returned THEN returned[key] ELSE {})
                                  \cup {tbl_data'[filter_name'][i] :
                                           i \in {k \in 1..Len(tbl_data'[filter_name']) :
                                                     key = <<ModelFname(Ts[k]), fname>>}}]
                /\ IF Len(tbl_data'[filter_name']) = 0
                   THEN UNCHANGED frame
                   ELSE frame' = CallFrame(ModelFname(Ts[Len(tbl_data'[filter_name'])]), fname)
                /\ IF Len(tbl_data'[filter_name']) < Len(Ts)
                   THEN Abort(CallStatus(
                            ModelFname(Ts[Len(tbl_data'[filter_name']) + 1]), fname))
                   ELSE /\ todo' = Tail(todo)
                        /\ UNCHANGED <<pc, error>>
    /\ UNCHANGED <<model_files, filter_dir, tbl, g_filter_resp, plotted, saved, out, linear>>

\* cell 6, lines 171-174: the temperature column, then the Table
DriverFinish ==
    /\ pc = "files"
    /\ todo = <<>>
    /\ tbl_data' = DictSet(tbl_data, <<"T">>, Array([i \in 1..Len(Ts) |-> Fin(Q(Ts[i]))]))
    /\ tbl' = tbl_data'
    /\ defined' = defined \cup {"tbl"}
    /\ pc' = "idle"
    /\ UNCHANGED <<model_files, filter_dir, todo, filter_fname, filter_name, g_filter_resp,
                   plotted, saved, error, out, frame, ncalls, returned, linear>>

\* the filters of 'rizy' a plotting loop draws before it ends or stops on a
\* missing column
DrawnOfRIZY ==
    {<<RIZY[i]>> : i \in {k \in 1..Len(RIZY) : \A j \in 1..k : <<RIZY[j]>> \in DOMAIN tbl}}

\* cell 7 (lines 183-196): magnitude against temperature, for r, i, z, y
RunMagPlot ==
    /\ pc = "idle"
    /\ linear' = LinearAfter(7)
    /\ IF "imports" \notin defined \/ "tbl" \notin defined
       THEN /\ error' = "NameError"
            /\ plotted' = [plotted EXCEPT !["mags"] = {}]
       ELSE /\ plotted' = [plotted EXCEPT !["mags"] = DrawnOfRIZY]
            /\ error' = IF Cardinality(DrawnOfRIZY) < Len(RIZY) THEN "KeyError" ELSE "none"
    /\ UNCHANGED <<model_files, filter_dir, defined, pc, todo, filter_fname, filter_name, tbl_data,
                   tbl, g_filter_resp, saved, out, frame, ncalls, returned>>

\* cell 8 (line 214): m_lim
RunMLim ==
    /\ pc = "idle"
    /\ linear' = LinearAfter(8)
    /\ defined' = defined \cup {"m_lim"}
    /\ error' = "none"
    /\ UNCHANGED <<model_files, filter_dir, pc, todo, filter_fname, filter_name, tbl_data, tbl,
                   g_filter_resp, plotted, saved, out, frame, ncalls, returned>>

\* cell 9 (lines 223-247): limiting distance against temperature, then hsc_bd.png
RunDistPlot ==
    /\ pc = "idle"
    /\ linear' = LinearAfter(9)
    /\ IF "imports" \notin defined \/ "m_lim" \notin defined \/ "tbl" \notin defined
       THEN /\ error' = "NameError"
            /\ plotted' = [plotted EXCEPT !["dlim"] = {}]
            /\ UNCHANGED saved
       ELSE /\ plotted' = [plotted EXCEPT !["dlim"] = DrawnOfRIZY]
            /\ IF Cardinality(DrawnOfRIZY) < Len(RIZY)
               THEN error' = "KeyError" /\ UNCHANGED saved
               ELSE error' = "none" /\ saved' = TRUE
    /\ UNCHANGED <<model_files, filter_dir, defined, pc, todo, filter_fname, filter_name, tbl_data,
                   tbl, g_filter_resp, out, frame, ncalls, returned>>

----------------------------------------------------------------------------
(* The session's files.                                                    *)

\* the wavelengths (angstrom) every session filter file tabulates
SessionFilterGrid ==
    <<15000, 20000, 30000, 40000>>

SessionResponse(name) ==
    IF name = HscR THEN <<0, 2, 1, 0>>
    ELSE IF name = HscI THEN <<1, 2, 1, 1>>
    ELSE IF name = HscZ THEN <<1, 1, 3, 1>>
    ELSE IF name = HscY THEN <<2, 1, 1, 3>>
    ELSE IF name = HscNB THEN <<0, 3, 0, 0>>
    ELSE <<1, 1, 2, 1>>

SessionFilterRows(name, order) ==
    Reorder(Array([i \in 1..Len(SessionFilterGrid) |->
                      <<SessionFilterGrid[i], SessionResponse(name)[i]>>]), order)

\* the wavelengths (micron) every session spectrum file tabulates
SessionModelGrid ==
    <<1, 2, 3, 5>>

\* the spectrum file of temperature T: nothing detected at the coldest
\* temperature, brighter with temperature above it
SessionModelRows(path) ==
    Array([i \in 1..Len(SessionModelGrid) |->
              <<SessionModelGrid[i],
                IF path[1] = TStart THEN 0
                ELSE MilliJanskyPerJansky * (((path[1] - TStart) \div TStep) + (i % 2)
                                             + (IF path[2] = "d2f0" THEN 1 ELSE 0))>>])

SessionModelFiles ==
    [path \in {ModelFname(Ts[k]) : k \in 1..Len(Ts)} \cup {TestModel} |->
        SessionModelRows(path)]

InitSession ==
    /\ pc = "idle"
    /\ todo = <<>>
    /\ filter_fname = <<>>
    /\ filter_name = <<>>
    /\ tbl_data = EmptyDict
    /\ tbl = EmptyDict
    /\ g_filter_resp = <<>>
    /\ plotted = [cell \in {"filters", "mags", "dlim"} |-> {}]
    /\ saved = FALSE
    /\ error = "none"
    /\ out = NoValue
    /\ frame = EmptyFrame
    /\ ncalls = EmptyDict
    /\ returned = EmptyDict

\* a fresh session in front of one of the directories
Init ==
    /\ InitSession
    /\ defined = {}
    /\ linear = 0
    /\ model_files = SessionModelFiles
    /\ \E dir \in Directories :
       \E order \in {"ascending-wavelength", "descending-wavelength"} :
          filter_dir = [name \in {dir[k] : k \in 1..Len(dir)} |->
                           SessionFilterRows(name, order)]

Next ==
    \/ RunImports
    \/ RunDefs
    \/ RunTest
    \/ PlotStart
    \/ PlotFilter
    \/ PlotFinish
    \/ RunPattr
    \/ DriverStart
    \/ DriverFilter
    \/ DriverFinish
    \/ RunMagPlot
    \/ RunMLim
    \/ RunDistPlot

Spec ==
    Init /\ [][Next]_vars

----------------------------------------------------------------------------
(* get_abs_mag on bounded inputs: the session has run the imports and the  *)
(* definitions, the two known files hold a spectrum and a filter drawn     *)
(* from the sets below, and the test cell calls get_abs_mag on them.       *)

\* the largest flux density (jansky) a spectrum file tabulates
MaxFlux == 1

\* the response a filter file tabulates where it transmits
MaxResp == 1

\* the largest factor a filter's responses are rescaled by
MaxScale == 3

\* wavelength grids (micron) of the spectra
ModelGrids ==
    {<<1, 2, 3>>, <<2, 3, 4, 6>>}

\* wavelength grids (angstrom) of the filters
FilterGrids ==
    {<<20000, 40000>>, <<15000, 30000, 50000>>, <<20000, 25000, 30000, 40000, 50000>>}

SpectrumInputs ==
    UNION {{Reorder(Array([i \in 1..Len(g) |-> <<g[i], MilliJanskyPerJansky * fl[i]>>]), order) :
                fl \in [1..Len(g) -> 0..MaxFlux],
                order \in {"ascending-wavelength", "descending-wavelength", "rotated"}} :
           g \in ModelGrids}

FilterInputs ==
    UNION {{Reorder(Array([i \in 1..Len(g) |-> <<g[i], resp[i]>>]), order) :
                resp \in [1..Len(g) -> {0, MaxResp}],
                order \in {"ascending-wavelength", "descending-wavelength"}} :
           g \in FilterGrids}

InitMag ==
    /\ InitSession
    /\ defined = {"imports", "load_model", "load_filter", "get_abs_mag"}
    /\ linear = -1
    /\ \E rows \in SpectrumInputs : model_files = [path \in {TestModel} |-> rows]
    /\ \E rows \in FilterInputs : filter_dir = [name \in {HscR} |-> rows]

NextMag ==
    RunTest

SpecMag ==
    InitMag /\ [][NextMag]_vars

----------------------------------------------------------------------------
(* Properties of get_abs_mag, stated on the call the test cell has made.   *)

\* the spectrum file the call read, and the filter file
TestRows ==
    model_files[TestModel]

TestFilterRows ==
    filter_dir[HscR]

\* the test cell's call has returned a value
Called ==
    /\ error = "none"
    /\ out # NoValue

\* the rows of a file listed by increasing frequency (decreasing wavelength),
\* and by decreasing frequency
AscendingFrequency(rows) ==
    Array([i \in 1..Len(rows) |->
              CHOOSE r \in {rows[k] : k \in 1..Len(rows)} :
                  Cardinality({k \in 1..Len(rows) : rows[k][1] >= r[1]}) = i])

DescendingFrequency(rows) ==
    Reverse(AscendingFrequency(rows))

\* C1: the magnitude of a spectrum file does not depend on the order of its
\* rows: the call on the file as it is returns what the call returns on the
\* same rows listed in ascending-frequency order and on the same rows listed
\* in descending-frequency order, for the same filter file.
C1_RowOrderInvariant ==
    Called =>
        /\ out = get_abs_mag(AscendingFrequency(TestRows), TestFilterRows, GlobalsEnv)
        /\ out = get_abs_mag(DescendingFrequency(TestRows), TestFilterRows, GlobalsEnv)

\* a four-row spectrum listed in descending-frequency order whose fluxes are not
\* all the same, with a finite magnitude
C1_Witness ==
    /\ Called
    /\ out.k = "fin"
    /\ Len(TestRows) = 4
    /\ TestRows = DescendingFrequency(TestRows)
    /\ TestRows[1][2] # TestRows[2][2]

\* x lies between a and b, whichever of the two is the larger
Between(x, a, b) ==
    \/ RLeq(a, x) /\ RLeq(x, b)
    \/ RLeq(b, x) /\ RLeq(x, a)

\* the straight line through (a, fa) and (b, fb), at x
Lerp(x, a, b, fa, fb) ==
    IF a = b THEN fa
    ELSE RAdd(fa, RMul(RDiv(RSub(x, a), RSub(b, a)), RSub(fb, fa)))

\* C2: the response resampled onto the model grid is the piecewise-linear
\* reconstruction of the filter's tabulated points: at every model frequency
\* lying between two adjacent tabulated filter frequencies (the ends included)
\* it is the linear interpolation of the two tabulated responses.
C2_PiecewiseLinear ==
    Called =>
        \A i \in 1..Len(frame.model_nu) : \A j \in 1..(Len(frame.filter_nu) - 1) :
            Between(frame.model_nu[i], frame.filter_nu[j], frame.filter_nu[j + 1]) =>
                frame.filter_resp_model[i] =
                    Lerp(frame.model_nu[i], frame.filter_nu[j], frame.filter_nu[j + 1],
                         frame.filter_resp[j], frame.filter_resp[j + 1])

\* the rows of the filter at its lowest and at its highest tabulated frequency
LowestNu(nu) ==
    CHOOSE j \in 1..Len(nu) : \A k \in 1..Len(nu) : RLeq(nu[j], nu[k])

HighestNu(nu) ==
    CHOOSE j \in 1..Len(nu) : \A k \in 1..Len(nu) : RLeq(nu[k], nu[j])

\* C3: a model frequency beyond an end of the filter's tabulated range gets the
\* response tabulated at that end, and a model frequency strictly inside the
\* range is not clamped.
C3_EdgeClamped ==
    Called =>
        \A i \in 1..Len(frame.model_nu) :
            LET x  == frame.model_nu[i]
                lo == LowestNu(frame.filter_nu)
                hi == HighestNu(frame.filter_nu)
            IN  /\ RLess(frame.filter_nu[hi], x) =>
                       frame.filter_resp_model[i] = frame.filter_resp[hi]
                /\ RLess(x, frame.filter_nu[lo]) =>
                       frame.filter_resp_model[i] = frame.filter_resp[lo]
                /\ (RLess(frame.filter_nu[lo], x) /\ RLess(x, frame.filter_nu[hi])) =>
                       binary_search(x, frame.filter_nu) \notin {-1, Len(frame.filter_nu)}

\* every row of the spectrum tabulates the same flux density
FlatSpectrum(rows) ==
    \A i, j \in 1..Len(rows) : rows[i][2] = rows[j][2]

\* the filter transmits with one constant response over a run of adjacent
\* tabulated wavelengths and is zero at the other ones, both ends among them
BandFilter(rows) ==
    LET byNu == AscendingFrequency(rows)
        on   == {i \in 1..Len(byNu) : byNu[i][2] # 0}
    IN  /\ on # {}
        /\ 1 \notin on
        /\ Len(byNu) \notin on
        /\ \A i, j \in on : byNu[i][2] = byNu[j][2] /\ byNu[i][2] > 0
        /\ \A i, j \in on : \A k \in i..j : k \in on

\* every tabulated wavelength of the filter lies within the spectrum's
InsideCoverage(filter_rows, model_rows) ==
    \A i \in 1..Len(filter_rows) :
        /\ \E k \in 1..Len(model_rows) :
               model_rows[k][1] * AngstromPerMicron <= filter_rows[i][1]
        /\ \E k \in 1..Len(model_rows) :
               filter_rows[i][1] <= model_rows[k][1] * AngstromPerMicron

\* C4: for a flat spectrum of flux density F and a band filter inside the
\* spectrum's coverage, the ratio whose logarithm is taken is F / 3631 Jy.
C4_FlatSpectrumBand ==
    (/\ Called
     /\ FlatSpectrum(TestRows)
     /\ BandFilter(TestFilterRows)
     /\ InsideCoverage(TestFilterRows, TestRows)) =>
        frame.ratio = Fin(Norm(TestRows[1][2], MilliJanskyPerJansky * ABZeroPointJansky))

\* the filter file with every response multiplied by k
Scaled(rows, k) ==
    Array([i \in 1..Len(rows) |-> <<rows[i][1], k * rows[i][2]>>])

\* C5: multiplying every tabulated response of the filter by the same positive
\* constant leaves the magnitude unchanged.
C5_ResponseScaleInvariant ==
    Called =>
        \A k \in 2..MaxScale :
            get_abs_mag(TestRows, Scaled(TestFilterRows, k), GlobalsEnv) = out

\* a filter inside the spectrum's coverage that transmits somewhere, and a
\* finite magnitude
C5_Witness ==
    /\ Called
    /\ out.k = "fin"
    /\ MaxScale >= 2
    /\ InsideCoverage(TestFilterRows, TestRows)
    /\ \E i \in 1..Len(TestFilterRows) : TestFilterRows[i][2] > 0

----------------------------------------------------------------------------
(* Properties of the session.                                              *)

\* the driver cell has run to its end and tbl is the table it built
DriverFinished ==
    /\ pc = "idle"
    /\ tbl # EmptyDict
    /\ tbl_data = tbl

\* C6: when the driver has finished, get_abs_mag has been called exactly once
\* per (filter file, temperature), and for every filter file the table holds a
\* column keyed by the file's identifier, with one entry per temperature, whose
\* i-th entry is the magnitude of that filter at the i-th temperature: no
\* column is overwritten by another file's column or by the column 'T'.
C6_TablePerFilter ==
    DriverFinished =>
        \A name \in {n \in DOMAIN filter_dir : MatchesDat(n)} :
            LET path == ResponsesDir \o name
                id   == pattr_search(path).group
            IN  /\ pattr_search(path).found
                /\ id \in DOMAIN tbl
                /\ Len(tbl[id]) = Len(Ts)
                /\ \A i \in 1..Len(Ts) :
                       /\ <<path, Ts[i]>> \in DOMAIN ncalls
                       /\ ncalls[<<path, Ts[i]>>] = 1
                       /\ tbl[id][i] = get_abs_mag(model_files[ModelFname(Ts[i])],
                                                   filter_dir[name], GlobalsEnv)

\* C7: a call whose weighted flux integral is zero or negative fails, so no
\* value that is not a finite magnitude is ever returned, displayed or appended
\* to a column.
C7_DomainErrorsAbort ==
    /\ out.k \in {"none", "fin"}
    /\ \A key \in DOMAIN returned : \A v \in returned[key] : v.k = "fin"
    /\ pc = "files" => \A id \in DOMAIN tbl_data :
                           \A i \in 1..Len(tbl_data[id]) : tbl_data[id][i].k = "fin"

\* what get_abs_mag returns for the two integrals: a positive ratio gives a
\* finite magnitude, a zero weighted integral over a nonzero normalization gives
\* +infinity, a positive one over a zero normalization -infinity, and 0/0, a
\* negative ratio or a negative weighted integral over a zero normalization NaN
MagnitudeOf(fnu1, fnu2) ==
    IF RSign(fnu2) = 0
    THEN (IF RSign(fnu1) > 0 THEN NonFinite("-inf") ELSE NonFinite("nan"))
    ELSE IF RSign(fnu1) = 0 THEN NonFinite("inf")
    ELSE IF RSign(fnu1) = RSign(fnu2) THEN Fin(RDiv(fnu1, fnu2))
    ELSE NonFinite("nan")

\* C7 as the code has it: a zero or negative weighted flux integral raises
\* nothing.  The call returns MagnitudeOf its two integrals (+infinity or NaN
\* when the ratio is not positive); in the driver the value is appended and
\* the loop goes on: the column of the coldest temperature's zero-flux
\* spectrum starts with that value and still gets its entry for every
\* temperature.
C7_NonFiniteReturned ==
    /\ frame # EmptyFrame => frame.mag = MagnitudeOf(frame.fnu1, frame.fnu2)
    /\ \A key \in DOMAIN returned :
           key[1] = ModelFname(TStart) =>
               LET fr == CallFrame(key[1], key[2])
               IN  /\ RSign(fr.fnu1) = 0
                   /\ returned[key] = {MagnitudeOf(fr.fnu1, fr.fnu2)}
                   /\ \A v \in returned[key] : v.k \in {"inf", "nan"}
    /\ (pc = "files" /\ error = "none") =>
           \A id \in DOMAIN tbl_data :
               /\ Len(tbl_data[id]) = Len(Ts)
               /\ tbl_data[id][1].k \in {"inf", "nan"}

\* the driver is between two filter files, with a column whose first entry is
\* +infinity behind it and a file still to go
C7_Witness ==
    /\ pc = "files"
    /\ error = "none"
    /\ todo # <<>>
    /\ \E id \in DOMAIN tbl_data :
           /\ Len(tbl_data[id]) = Len(Ts)
           /\ tbl_data[id][1].k = "inf"
           /\ tbl_data[id][Len(Ts)].k = "fin"

\* C8: calls of get_abs_mag are independent and idempotent: whatever ran
\* before, every call on the same two files has returned the same value; the
\* names the body assigns never become session globals, the global filter_resp
\* holds only what the filter-plot cell loaded, and the spectrum files are as
\* they were.
C8_CallsIndependent ==
    /\ \A key \in DOMAIN returned : Cardinality(returned[key]) = 1
    /\ defined \cap {"model_nu", "model_fnu", "filter_nu", "filter_resp_model",
                     "fnu1", "fnu2"} = {}
    /\ "filter_resp" \in defined =>
           \E name \in DOMAIN filter_dir :
               g_filter_resp = load_filter(filter_dir[name], TRUE)[2]
    /\ "filter_resp" \notin defined => g_filter_resp = <<>>
    /\ model_files = SessionModelFiles

\* the test cell has called get_abs_mag while the filter-plot cell's global
\* filter_resp held another file's responses, and the driver has called it for
\* two filters
C8_Witness ==
    /\ "filter_resp" \in defined
    /\ g_filter_resp # load_filter(filter_dir[HscR], TRUE)[2]
    /\ <<TestModel, TestFilter>> \in DOMAIN returned
    /\ out.k = "fin"
    /\ \E k1, k2 \in DOMAIN returned : k1[1] = k2[1] /\ k1[2] # k2[2]

\* an identifier that begins with 'nb'
NarrowBand(id) ==
    /\ Len(id) >= 2
    /\ id[1] = "n"
    /\ id[2] = "b"

\* C9: no filter whose identifier begins with 'nb' is drawn by any of the three
\* plotting loops.
C9_NoNarrowBandPlotted ==
    \A cell \in DOMAIN plotted : \A id \in plotted[cell] : ~NarrowBand(id)

\* the directory holds a narrow-band file, the table has its column, and the
\* filter-curve loop and the magnitude loop have both drawn something
C9_Witness ==
    /\ HscNB \in DOMAIN filter_dir
    /\ pc = "idle"
    /\ \E id \in DOMAIN tbl : NarrowBand(id)
    /\ plotted["filters"] # {}
    /\ plotted["mags"] # {}

\* C10: while the cells are run top to bottom, every name is assigned before
\* it is read: no cell of a linear run ends on a NameError.
C10_DefinedBeforeUse ==
    linear >= 0 => error # "NameError"

====
